---- MODULE Spec2Model ----
(***************************************************************************)
(* A model of ksq, a k2-tree stored as a flat sequence of layers of        *)
(* 16-bit cells (src/src/cell.rs, layer.rs, tree.rs, tree_iterator.rs).    *)
(*                                                                         *)
(* A Cell is modelled by its u16 value (0..65535), a Layer by the sequence *)
(* of its cells, a Tree by the sequence of its layers, root first.  A      *)
(* panic (assert!, panic!, slice index out of range) is modelled by the    *)
(* field "panic" of the record an operation returns.                       *)
(*                                                                         *)
(* The capacities the program computes by shifting (Tree::bits,            *)
(* Layer::layer_bits, Matrix::side) are usize values, 64 bits wide; the    *)
(* model keeps them as four 16-bit limbs so that a shift loses the bits it *)
(* loses in the program.  Bit offsets, cell offsets and iterator positions *)
(* are numbers below 2^31.                                                 *)
(***************************************************************************)
EXTENDS Integers, Sequences, FiniteSets, TLC

VARIABLES tree, prev, last, input, it

vars == <<tree, prev, last, input, it>>

(***************************************************************************)
(* Bounds of the model.                                                    *)
(***************************************************************************)
\* the largest number of layers Tree::grow is allowed to build
MaxHeight == 2
\* the longest input handed to Tree::from
MaxLen == 4

(***************************************************************************)
(* usize: 64-bit unsigned values as <<l1, l2, l3, l4>>, the value being    *)
(* l1 + l2 * 2^16 + l3 * 2^32 + l4 * 2^48.                                 *)
(***************************************************************************)
UsizeBits == 64

U64_Base == 65536

U64_Zero == <<0, 0, 0, 0>>

\* the usize of a number 0 <= n < 2^31
U64_of(n) == <<n % U64_Base, n \div U64_Base, 0, 0>>

\* TRUE when x is the usize of a number below 2^31
U64_IsInt(x) == x[3] = 0 /\ x[4] = 0 /\ x[2] < 32768

\* the number x stands for, when U64_IsInt(x)
U64_Int(x) == x[1] + (U64_Base * x[2])

\* x < y
U64_Lt(x, y) ==
    \/ x[4] < y[4]
    \/ x[4] = y[4] /\ x[3] < y[3]
    \/ x[4] = y[4] /\ x[3] = y[3] /\ x[2] < y[2]
    \/ x[4] = y[4] /\ x[3] = y[3] /\ x[2] = y[2] /\ x[1] < y[1]

\* x <= y
U64_Le(x, y) == x = y \/ U64_Lt(x, y)

RECURSIVE U64_Shl(_, _)
\* x << n for a shift amount n < 64: the bits shifted past bit 63 are lost
U64_Shl(x, n) ==
    IF n >= 16 THEN U64_Shl(<<0, x[1], x[2], x[3]>>, n - 16)
    ELSE LET m == 2 ^ n
             a == x[1] * m
             b == (x[2] * m) + (a \div U64_Base)
             c == (x[3] * m) + (b \div U64_Base)
             d == (x[4] * m) + (c \div U64_Base)
         IN  <<a % U64_Base, b % U64_Base, c % U64_Base, d % U64_Base>>

RECURSIVE U64_Shr(_, _)
\* x >> n for a shift amount n < 64
U64_Shr(x, n) ==
    IF n >= 16 THEN U64_Shr(<<x[2], x[3], x[4], 0>>, n - 16)
    ELSE LET m == 2 ^ n
         IN  <<(x[1] + ((x[2] % m) * U64_Base)) \div m,
               (x[2] + ((x[3] % m) * U64_Base)) \div m,
               (x[3] + ((x[4] % m) * U64_Base)) \div m,
               x[4] \div m>>

\* x * n for a number n < 2^15, when the product is below 2^64
U64_MulInt(x, n) ==
    LET a == x[1] * n
        b == (x[2] * n) + (a \div U64_Base)
        c == (x[3] * n) + (b \div U64_Base)
        d == (x[4] * n) + (c \div U64_Base)
    IN  <<a % U64_Base, b % U64_Base, c % U64_Base, d % U64_Base>>

\* x + y, when the sum is below 2^64
U64_Add(x, y) ==
    LET a == x[1] + y[1]
        b == x[2] + y[2] + (a \div U64_Base)
        c == x[3] + y[3] + (b \div U64_Base)
        d == x[4] + y[4] + (c \div U64_Base)
    IN  <<a % U64_Base, b % U64_Base, c % U64_Base, d % U64_Base>>

\* n / d for a number n < 2^31 and a usize d /= 0
U64_DivInt(n, d) == IF U64_IsInt(d) THEN n \div U64_Int(d) ELSE 0

(***************************************************************************)
(* cell.rs                                                                 *)
(***************************************************************************)
Cell_bits == 16

Cell_new == 0

\* bounds_check!: TRUE when the assertion passes
bounds_check(n) == n < Cell_bits

\* bit n of the u16 value c, as 0 or 1
BitOf(c, n) == (c \div (2 ^ n)) % 2

Cell_get(c, n) == IF c = 0 THEN FALSE ELSE BitOf(c, n) /= 0

\* Cell::set or-ing the bit in whatever v is
Cell_set_or(c, n, v) ==
    IF BitOf(c, n) = 1 THEN c ELSE c + (2 ^ n)

Cell_set(c, n, v) ==
    IF v THEN (IF BitOf(c, n) = 1 THEN c ELSE c + (2 ^ n))
         ELSE (IF BitOf(c, n) = 1 THEN c - (2 ^ n) ELSE c)

RECURSIVE PopCount(_)
\* the number of set bits of c (u16::count_ones)
PopCount(c) == IF c = 0 THEN 0 ELSE (c % 2) + PopCount(c \div 2)

Cell_count_ones(c) == PopCount(c)

\* (self.0 & ((1 << idx) - 1)).count_ones()
Cell_count_ones_until(c, idx) == PopCount(c % (2 ^ idx))

(***************************************************************************)
(* layer.rs                                                                *)
(***************************************************************************)
RECURSIVE Slice_count_ones_until(_, _)
\* CountOnes for [Cell]: the popcount of the first idx cells
Slice_count_ones_until(cells, idx) ==
    IF idx = 0 THEN 0
    ELSE Cell_count_ones(cells[idx]) + Slice_count_ones_until(cells, idx - 1)

Slice_count_ones(cells) == Slice_count_ones_until(cells, Len(cells))

Layer_count_ones(layer) == Slice_count_ones(layer)

\* Layer::count_ones_until counting the cells that are not 0
Layer_count_ones_until_cells(layer, idx) ==
    Cardinality({k \in 1..idx : layer[k] /= 0})

Layer_count_ones_until(layer, idx) == Slice_count_ones_until(layer, idx)

\* the heights whose shift amount 4 * height is below the width of usize
Heights == 0..((UsizeBits \div 4) - 1)

\* Cell::bits() << (4 * height), a usize, for every height
Layer_layer_bits_at == [height \in Heights |-> U64_Shl(U64_of(Cell_bits), 4 * height)]

Layer_layer_bits(height) == Layer_layer_bits_at[height]

\* the divisor of Layer::cell_bit, layer_bits(height) >> 4, for every height
Layer_cell_bit_div_at == [height \in Heights |-> U64_Shr(Layer_layer_bits(height), 4)]

Layer_cell_bit_div(height) == Layer_cell_bit_div_at[height]

\* li = <<height, cell offset, global bit>>
Layer_cell_bit(li) == U64_DivInt(li[3], Layer_cell_bit_div(li[1])) % Cell_bits

\* Layer::cell_bit panics when it divides by zero
Layer_cell_bit_panics(li) == Layer_cell_bit_div(li[1]) = U64_Zero

\* Layer::get panics when cell_bit does, when offset is no index of the layer
\* (self.0[offset]) or when the bit index fails the bounds check of Cell::get
Layer_get_panics(layer, li) ==
    \/ Layer_cell_bit_panics(li)
    \/ li[2] >= Len(layer)
    \/ ~bounds_check(Layer_cell_bit(li))

\* the second component of the result of Layer::get: cell.get(o)
Layer_get_set(layer, li) == Cell_get(layer[li[2] + 1], Layer_cell_bit(li))

\* the first component of the result of Layer::get: next_offset
Layer_get_next_offset(layer, li) ==
    IF li[1] > 0
    THEN Slice_count_ones_until(layer, li[2])
         + Cell_count_ones_until(layer[li[2] + 1], Layer_cell_bit(li))
    ELSE 0

\* Layer::get
Layer_get(layer, li) ==
    IF Layer_get_panics(layer, li)
    THEN [panic |-> TRUE, next_offset |-> 0, set |-> FALSE]
    ELSE [panic       |-> FALSE,
          next_offset |-> Layer_get_next_offset(layer, li),
          set         |-> Layer_get_set(layer, li)]

\* Layer::insert_cell pushing the cell at the end of the layer instead
Layer_insert_cell_push(layer, n, cell) ==
    IF n > Len(layer)
    THEN [panic |-> TRUE, layer |-> layer]
    ELSE [panic |-> FALSE, layer |-> Append(layer, cell)]

\* Vec::insert(n, cell); panics when n > len
Layer_insert_cell(layer, n, cell) ==
    IF n > Len(layer)
    THEN [panic |-> TRUE, layer |-> layer]
    ELSE [panic |-> FALSE,
          layer |-> SubSeq(layer, 1, n) \o <<cell>> \o SubSeq(layer, n + 1, Len(layer))]

\* Layer::set reporting a bit that was already set as newly set
Layer_set_again(layer, li) ==
    LET offset == li[2]
        g      == Layer_get(layer, li)
        o      == Layer_cell_bit(li)
    IN  IF g.panic
        THEN [panic |-> TRUE, next_offset |-> 0, set |-> FALSE, layer |-> layer]
        ELSE [panic |-> FALSE, next_offset |-> g.next_offset, set |-> TRUE,
              layer |-> [layer EXCEPT ![offset + 1] = Cell_set(layer[offset + 1], o, TRUE)]]

\* Layer::set
Layer_set(layer, li) ==
    LET offset == li[2]
        g      == Layer_get(layer, li)
        o      == Layer_cell_bit(li)
    IN  IF g.panic
        THEN [panic |-> TRUE, next_offset |-> 0, set |-> FALSE, layer |-> layer]
        ELSE IF g.set
        THEN [panic |-> FALSE, next_offset |-> g.next_offset, set |-> FALSE, layer |-> layer]
        ELSE [panic |-> FALSE, next_offset |-> g.next_offset, set |-> TRUE,
              layer |-> [layer EXCEPT ![offset + 1] = Cell_set(layer[offset + 1], o, TRUE)]]

\* Layer::unset clearing the bit in the first cell of the layer instead
Layer_unset_first(layer, li) ==
    LET o == Layer_cell_bit(li)
    IN  IF Layer_cell_bit_panics(li) \/ li[2] >= Len(layer) \/ ~bounds_check(o)
        THEN [panic |-> TRUE, layer |-> layer]
        ELSE [panic |-> FALSE,
              layer |-> [layer EXCEPT ![1] = Cell_set(layer[1], o, FALSE)]]

\* Layer::unset removing a cell it cleared the last bit of
Layer_unset_prune(layer, li) ==
    LET offset == li[2]
        o      == Layer_cell_bit(li)
    IN  IF Layer_cell_bit_panics(li) \/ offset >= Len(layer) \/ ~bounds_check(o)
        THEN [panic |-> TRUE, layer |-> layer]
        ELSE IF Cell_set(layer[offset + 1], o, FALSE) = 0 /\ Len(layer) > 1
        THEN [panic |-> FALSE,
              layer |-> SubSeq(layer, 1, offset) \o SubSeq(layer, offset + 2, Len(layer))]
        ELSE [panic |-> FALSE,
              layer |-> [layer EXCEPT ![offset + 1] = Cell_set(layer[offset + 1], o, FALSE)]]

\* Layer::unset
Layer_unset(layer, li) ==
    LET offset == li[2]
        o      == Layer_cell_bit(li)
    IN  IF Layer_cell_bit_panics(li) \/ offset >= Len(layer) \/ ~bounds_check(o)
        THEN [panic |-> TRUE, layer |-> layer]
        ELSE [panic |-> FALSE,
              layer |-> [layer EXCEPT ![offset + 1] = Cell_set(layer[offset + 1], o, FALSE)]]

Layer_to_vec(layer) == layer

(***************************************************************************)
(* tree.rs                                                                 *)
(***************************************************************************)
Tree_new == << <<Cell_new>> >>

Tree_height(t) == Len(t)

\* Cell::bits() << (4 * (self.0.len() - 1)), a usize, for every number of layers
Tree_bits_at == [len \in 1..(UsizeBits \div 4) |-> U64_Shl(U64_of(Cell_bits), 4 * (len - 1))]

Tree_bits_usize(t) == Tree_bits_at[Len(t)]

\* Tree::bits as a number, for the trees whose bits() is below 2^31
Tree_bits(t) == U64_Int(Tree_bits_usize(t))

\* Tree::grow inserting an empty root cell
Tree_grow_zero(t) == << <<0>> >> \o t

\* Tree::grow
Tree_grow(t) == << <<1>> >> \o t

RECURSIVE FromLoop_strict(_, _)
\* the loop of Tree::from rejecting a layer that takes all the remaining values
FromLoop_strict(t, v) ==
    IF v = <<>> THEN [err |-> "Ok", tree |-> t]
    ELSE LET layer_len == Layer_count_ones(t[Len(t)])
         IN  IF layer_len = 0 /\ v /= <<>>
             THEN [err |-> "Malformed", tree |-> <<>>]
             ELSE IF layer_len >= Len(v)
             THEN [err |-> "Malformed", tree |-> <<>>]
             ELSE FromLoop_strict(Append(t, SubSeq(v, 1, layer_len)),
                                  SubSeq(v, layer_len + 1, Len(v)))

RECURSIVE FromLoop_root(_, _)
\* the loop of Tree::from sizing every layer by the root layer's popcount
FromLoop_root(t, v) ==
    IF v = <<>> THEN [err |-> "Ok", tree |-> t]
    ELSE LET layer_len == Layer_count_ones(t[1])
         IN  IF layer_len = 0 /\ v /= <<>>
             THEN [err |-> "Malformed", tree |-> <<>>]
             ELSE IF layer_len > Len(v)
             THEN [err |-> "Malformed", tree |-> <<>>]
             ELSE FromLoop_root(Append(t, SubSeq(v, 1, layer_len)),
                                SubSeq(v, layer_len + 1, Len(v)))

RECURSIVE FromLoop(_, _)
\* the while loop of Tree::from: t is the layers built so far, v the rest
FromLoop(t, v) ==
    IF v = <<>> THEN [err |-> "Ok", tree |-> t]
    ELSE LET layer_len == Layer_count_ones(t[Len(t)])
         IN  IF layer_len = 0 /\ v /= <<>>
             THEN [err |-> "Malformed", tree |-> <<>>]
             ELSE IF layer_len > Len(v)
             THEN [err |-> "Malformed", tree |-> <<>>]
             ELSE FromLoop(Append(t, SubSeq(v, 1, layer_len)),
                           SubSeq(v, layer_len + 1, Len(v)))

\* Tree::from reporting an empty input as Malformed
Tree_from_malformed(v) ==
    IF v = <<>> THEN [err |-> "Malformed", tree |-> <<>>]
    ELSE FromLoop(<< <<v[1]>> >>, SubSeq(v, 2, Len(v)))

\* Tree::from
Tree_from(v) ==
    IF v = <<>> THEN [err |-> "Empty", tree |-> <<>>]
    ELSE FromLoop(<< <<v[1]>> >>, SubSeq(v, 2, Len(v)))

RECURSIVE GetWalk(_, _, _, _)
\* the for loop of Tree::get, from the layer at `height` downwards
GetWalk(t, height, next_offset, bit) ==
    LET layer == t[Len(t) - height]
        li    == <<height, next_offset, bit>>
    IN  IF Layer_get_panics(layer, li) THEN [panic |-> TRUE, val |-> FALSE]
        ELSE IF ~Layer_get_set(layer, li) THEN [panic |-> FALSE, val |-> FALSE]
        ELSE IF height = 0 THEN [panic |-> FALSE, val |-> TRUE]
        ELSE GetWalk(t, height - 1, Layer_get_next_offset(layer, li), bit)

\* the range check letting bit == bits() through
OutOfRange_lt(t, bit) == U64_Lt(Tree_bits_usize(t), U64_of(bit))

\* the range check of Tree::get, Tree::set and Tree::unset: TRUE when it panics
OutOfRange(t, bit) == U64_Le(Tree_bits_usize(t), U64_of(bit))

\* Tree::get
Tree_get(t, bit) ==
    IF OutOfRange(t, bit) THEN [panic |-> TRUE, val |-> FALSE]
    ELSE GetWalk(t, Len(t) - 1, 0, bit)

RECURSIVE SetWalk(_, _, _, _, _)
\* the for loop of Tree::set, from the layer at `height` downwards
SetWalk(t, height, next_offset, should_create, bit) ==
    LET i   == Len(t) - height
        ins == IF should_create
               THEN Layer_insert_cell(t[i], next_offset, Cell_new)
               ELSE [panic |-> FALSE, layer |-> t[i]]
        s   == Layer_set(ins.layer, <<height, next_offset, bit>>)
        t2  == [t EXCEPT ![i] = s.layer]
    IN  IF ins.panic THEN [panic |-> TRUE, tree |-> t]
        ELSE IF s.panic THEN [panic |-> TRUE, tree |-> [t EXCEPT ![i] = ins.layer]]
        ELSE IF height = 0 THEN [panic |-> FALSE, tree |-> t2]
        ELSE SetWalk(t2, height - 1, s.next_offset, s.set, bit)

\* Tree::set
Tree_set(t, bit) ==
    IF OutOfRange(t, bit) THEN [panic |-> TRUE, tree |-> t]
    ELSE SetWalk(t, Len(t) - 1, 0, FALSE, bit)

RECURSIVE UnsetWalk(_, _, _, _)
\* the for loop of Tree::unset, from the layer at `height` downwards
UnsetWalk(t, height, next_offset, bit) ==
    LET i  == Len(t) - height
        li == <<height, next_offset, bit>>
    IN  IF height = 0
        THEN LET u == Layer_unset(t[i], li)
             IN  [panic |-> u.panic, tree |-> [t EXCEPT ![i] = u.layer]]
        ELSE LET g == Layer_get(t[i], li)
             IN  IF g.panic THEN [panic |-> TRUE, tree |-> t]
                 ELSE IF ~g.set THEN [panic |-> FALSE, tree |-> t]
                 ELSE UnsetWalk(t, height - 1, g.next_offset, bit)

\* Tree::unset
Tree_unset(t, bit) ==
    IF OutOfRange(t, bit) THEN [panic |-> TRUE, tree |-> t]
    ELSE UnsetWalk(t, Len(t) - 1, 0, bit)

RECURSIVE Tree_to_vec_nonzero(_)
\* Tree::to_vec leaving out the cells that are 0
Tree_to_vec_nonzero(t) ==
    IF t = <<>> THEN <<>>
    ELSE SelectSeq(Layer_to_vec(Head(t)), LAMBDA c : c /= 0)
         \o Tree_to_vec_nonzero(Tail(t))

RECURSIVE Tree_to_vec(_)
\* Tree::to_vec: the layers' cells, root first
Tree_to_vec(t) ==
    IF t = <<>> THEN <<>> ELSE Layer_to_vec(Head(t)) \o Tree_to_vec(Tail(t))

\* zip of two sequences stops at the shorter one
Min(a, b) == IF a < b THEN a ELSE b

RECURSIVE CellOffsets(_, _, _, _)
\* the inner loop of Tree::leaf_layer over idx in from idx to 15: the start
\* offsets of the children of one cell
CellOffsets(cell, offset, bits_per_bit, idx) ==
    IF idx >= 16 THEN <<>>
    ELSE (IF Cell_get(cell, idx) THEN <<offset + (bits_per_bit * idx)>> ELSE <<>>)
         \o CellOffsets(cell, offset, bits_per_bit, idx + 1)

RECURSIVE NextLayerMap(_, _, _, _)
\* the loop of Tree::leaf_layer over the zipped (cell, offset) pairs from k on
NextLayerMap(layer, layer_map, bits_per_bit, k) ==
    IF k > Min(Len(layer), Len(layer_map)) THEN <<>>
    ELSE CellOffsets(layer[k], layer_map[k], bits_per_bit, 0)
         \o NextLayerMap(layer, layer_map, bits_per_bit, k + 1)

RECURSIVE LayerMap(_, _, _)
\* the outer loop of Tree::leaf_layer from the layer at layer_index (0-based) on
LayerMap(t, layer_index, layer_map) ==
    IF layer_index >= Len(t) - 1 THEN layer_map
    ELSE LET height == Len(t) - layer_index - 1
         IN  LayerMap(t, layer_index + 1,
                      NextLayerMap(t[layer_index + 1], layer_map, 2 ^ (4 * height), 1))

\* Tree::leaf_layer: the sequence of <<start offset, cell>> of the leaf cells
Tree_leaf_layer(t) ==
    LET layer_map == LayerMap(t, 0, <<0>>)
        leaves    == t[Len(t)]
    IN  [k \in 1..Min(Len(layer_map), Len(leaves)) |-> <<layer_map[k], leaves[k]>>]

\* 1 << (4 * height), a usize, for every height
bits_per_bit_at == [height \in Heights |-> U64_Shl(U64_of(1), 4 * height)]

RECURSIVE CellOffsets_usize(_, _, _, _)
\* CellOffsets with the offsets as usize
CellOffsets_usize(cell, offset, bits_per_bit, idx) ==
    IF idx >= 16 THEN <<>>
    ELSE (IF Cell_get(cell, idx)
          THEN <<U64_Add(offset, U64_MulInt(bits_per_bit, idx))>>
          ELSE <<>>)
         \o CellOffsets_usize(cell, offset, bits_per_bit, idx + 1)

RECURSIVE NextLayerMap_usize(_, _, _, _)
\* NextLayerMap with the offsets as usize
NextLayerMap_usize(layer, layer_map, bits_per_bit, k) ==
    IF k > Min(Len(layer), Len(layer_map)) THEN <<>>
    ELSE CellOffsets_usize(layer[k], layer_map[k], bits_per_bit, 0)
         \o NextLayerMap_usize(layer, layer_map, bits_per_bit, k + 1)

RECURSIVE LayerMap_usize(_, _, _)
\* LayerMap with the offsets as usize
LayerMap_usize(t, layer_index, layer_map) ==
    IF layer_index >= Len(t) - 1 THEN layer_map
    ELSE LET height == Len(t) - layer_index - 1
         IN  LayerMap_usize(t, layer_index + 1,
                 NextLayerMap_usize(t[layer_index + 1], layer_map,
                                    bits_per_bit_at[height], 1))

\* Tree::leaf_layer with the offsets as usize, for trees of up to 16 layers
Tree_leaf_layer_usize(t) ==
    LET layer_map == LayerMap_usize(t, 0, <<U64_Zero>>)
        leaves    == t[Len(t)]
    IN  [k \in 1..Min(Len(layer_map), Len(leaves)) |-> <<layer_map[k], leaves[k]>>]

(***************************************************************************)
(* tree_iterator.rs                                                        *)
(***************************************************************************)
\* None
None == <<>>

Max(a, b) == IF a > b THEN a ELSE b

\* leaf_layer_iter.next() reading the leaf layer of the tree as it is now
LeafNext_live(leaf, pos) ==
    LET now == IF tree = <<>> THEN leaf ELSE Tree_leaf_layer(tree)
    IN  IF pos < Len(now) THEN [cur |-> now[pos + 1], pos |-> pos + 1]
        ELSE [cur |-> None, pos |-> pos]

\* leaf_layer_iter.next(): pos is the number of entries already taken
LeafNext(leaf, pos) ==
    IF pos < Len(leaf) THEN [cur |-> leaf[pos + 1], pos |-> pos + 1]
    ELSE [cur |-> None, pos |-> pos]

RECURSIVE scan_iter_forward(_, _, _)
\* Tree::_scan_iter_forward
scan_iter_forward(leaf, pos, from) ==
    LET n == LeafNext(leaf, pos)
    IN  IF n.cur = None THEN n
        ELSE IF n.cur[1] + Cell_bits >= from THEN n
        ELSE scan_iter_forward(leaf, n.pos, from)

\* the common start of iter_from_to and iter_ones_from_to: the first leaf
\* cell, or the one _scan_iter_forward catches up to
IterStart(leaf, from) ==
    LET first == LeafNext(leaf, 0)
    IN  IF from >= Cell_bits /\ first.cur /= None /\ first.cur[1] + Cell_bits <= from
        THEN scan_iter_forward(leaf, first.pos, from)
        ELSE first

NoIter ==
    [kind |-> "none", from |-> 0, to |-> 0, index |-> 0, bits |-> 0, cur |-> None,
     leaf |-> <<>>, pos |-> 0, tree0 |-> <<>>, out |-> <<>>, done |-> FALSE,
     panic |-> FALSE]

\* Tree::iter_from_to; tree0 and out record the tree at construction and the
\* values yielded so far
Tree_iter_from_to(t, from, to) ==
    LET leaf  == Tree_leaf_layer(t)
        start == IterStart(leaf, from)
    IN  [kind |-> "iter", from |-> from, to |-> to, index |-> from, bits |-> to,
         cur |-> start.cur, leaf |-> leaf, pos |-> start.pos, tree0 |-> t,
         out |-> <<>>, done |-> FALSE, panic |-> FALSE]

\* Tree::iter_ones_from_to
Tree_iter_ones_from_to(t, from, to) ==
    LET leaf  == Tree_leaf_layer(t)
        start == IterStart(leaf, from)
    IN  [kind |-> "ones", from |-> from, to |-> to,
         index |-> Max(from, IF start.cur = None THEN 0 ELSE start.cur[1]),
         bits |-> to,
         cur |-> start.cur, leaf |-> leaf, pos |-> start.pos, tree0 |-> t,
         out |-> <<>>, done |-> FALSE, panic |-> FALSE]

\* LeafIterator::next moving to the next leaf cell one call too late
LeafIterator_next_late(s) ==
    IF s.index >= s.bits THEN [s EXCEPT !.done = TRUE]
    ELSE IF s.cur = None
    THEN [s EXCEPT !.index = s.index + 1, !.out = Append(s.out, FALSE)]
    ELSE LET offset    == s.cur[1]
             cell      == s.cur[2]
             bit_index == s.index - offset
             nxt       == LeafNext(s.leaf, s.pos)
         IN  IF s.index < offset
             THEN [s EXCEPT !.index = s.index + 1, !.out = Append(s.out, FALSE)]
             ELSE IF ~bounds_check(bit_index) THEN [s EXCEPT !.panic = TRUE]
             ELSE IF s.index + 1 > offset + Cell_bits
             THEN [s EXCEPT !.index = s.index + 1, !.cur = nxt.cur, !.pos = nxt.pos,
                            !.out = Append(s.out, Cell_get(cell, bit_index))]
             ELSE [s EXCEPT !.index = s.index + 1,
                            !.out = Append(s.out, Cell_get(cell, bit_index))]

\* LeafIterator::next: the iterator after one call
LeafIterator_next(s) ==
    IF s.index >= s.bits THEN [s EXCEPT !.done = TRUE]
    ELSE IF s.cur = None
    THEN [s EXCEPT !.index = s.index + 1, !.out = Append(s.out, FALSE)]
    ELSE LET offset    == s.cur[1]
             cell      == s.cur[2]
             bit_index == s.index - offset
             nxt       == LeafNext(s.leaf, s.pos)
         IN  IF s.index < offset
             THEN [s EXCEPT !.index = s.index + 1, !.out = Append(s.out, FALSE)]
             ELSE IF ~bounds_check(bit_index) THEN [s EXCEPT !.panic = TRUE]
             ELSE IF s.index + 1 >= offset + Cell_bits
             THEN [s EXCEPT !.index = s.index + 1, !.cur = nxt.cur, !.pos = nxt.pos,
                            !.out = Append(s.out, Cell_get(cell, bit_index))]
             ELSE [s EXCEPT !.index = s.index + 1,
                            !.out = Append(s.out, Cell_get(cell, bit_index))]

RECURSIVE LeafIteratorOnes_next_rel(_)
\* LeafIteratorOnes::next yielding the index within the cell
LeafIteratorOnes_next_rel(s) ==
    IF s.index >= s.bits THEN [s EXCEPT !.done = TRUE]
    ELSE IF s.cur = None THEN [s EXCEPT !.done = TRUE]
    ELSE LET offset    == s.cur[1]
             cell      == s.cur[2]
             idx       == IF s.index < offset THEN offset ELSE s.index
             bit_index == idx - offset
             nxt       == LeafNext(s.leaf, s.pos)
             s2        == IF idx + 1 >= offset + Cell_bits
                          THEN [s EXCEPT !.index = idx + 1, !.cur = nxt.cur,
                                         !.pos = nxt.pos]
                          ELSE [s EXCEPT !.index = idx + 1]
         IN  IF ~bounds_check(bit_index) THEN [s2 EXCEPT !.panic = TRUE]
             ELSE IF Cell_get(cell, bit_index)
             THEN [s2 EXCEPT !.out = Append(s2.out, bit_index)]
             ELSE LeafIteratorOnes_next_rel(s2)

RECURSIVE LeafIteratorOnes_next(_)
\* LeafIteratorOnes::next: the iterator after one call (the loop runs until
\* a value is yielded, None is returned or Cell::get panics)
LeafIteratorOnes_next(s) ==
    IF s.index >= s.bits THEN [s EXCEPT !.done = TRUE]
    ELSE IF s.cur = None THEN [s EXCEPT !.done = TRUE]
    ELSE LET offset    == s.cur[1]
             cell      == s.cur[2]
             idx       == IF s.index < offset THEN offset ELSE s.index
             bit_index == idx - offset
             nxt       == LeafNext(s.leaf, s.pos)
             s2        == IF idx + 1 >= offset + Cell_bits
                          THEN [s EXCEPT !.index = idx + 1, !.cur = nxt.cur,
                                         !.pos = nxt.pos]
                          ELSE [s EXCEPT !.index = idx + 1]
         IN  IF ~bounds_check(bit_index) THEN [s2 EXCEPT !.panic = TRUE]
             ELSE IF Cell_get(cell, bit_index)
             THEN [s2 EXCEPT !.out = Append(s2.out, idx)]
             ELSE LeafIteratorOnes_next(s2)

(***************************************************************************)
(* The state machine.  tree is the caller's Tree (<<>> when Tree::from     *)
(* returned an error), prev the tree before the last operation, last the   *)
(* last operation with its argument and outcome, input the slice handed to *)
(* Tree::from (or the coordinates <<x, y>> handed to a Matrix call, or the *)
(* cells of the layer a Layer::count_ones_until call acts on), it the      *)
(* iterator the caller holds.                                              *)
(***************************************************************************)
Op(op, bit, panic, val, err) ==
    [op |-> op, bit |-> bit, panic |-> panic, val |-> val, err |-> err]

\* cell values of the inputs of Tree::from
CellVals == {0, 1, 2, 3, 10, 32768}

RECURSIVE SeqsUpTo(_, _)
SeqsUpTo(S, n) ==
    IF n = 0 THEN {<<>>}
    ELSE LET shorter == SeqsUpTo(S, n - 1)
         IN  shorter \cup {Append(q, x) : q \in shorter, x \in S}

\* the inputs of Tree::from
Inputs == SeqsUpTo(CellVals, MaxLen)

\* the serialized trees a run may start from
SeedInputs == {<<2, 10>>, <<3, 0, 1>>, <<1, 1, 0>>, <<5, 0, 3, 8, 9>>}

\* the bit offsets handed to get, set and unset
SampleBits == {0, 17}

BitChoices(t) ==
    IF t = <<>> THEN {}
    ELSE {b \in SampleBits : b < Tree_bits(t)}
            \cup {Tree_bits(t) - 1, Tree_bits(t), Tree_bits(t) + 17}

Init ==
    /\ tree = Tree_new
    /\ prev = Tree_new
    /\ last = Op("new", 0, FALSE, FALSE, "Ok")
    /\ input = <<>>
    /\ it = NoIter

\* a live caller: no panic so far, a tree in hand, no iterator yet
Live == ~last.panic /\ tree /= <<>> /\ it.kind = "none"

From(v) ==
    /\ last.op = "new"
    /\ it.kind = "none"
    /\ LET r == Tree_from(v)
       IN  /\ tree' = r.tree
           /\ prev' = r.tree
           /\ last' = Op("from", 0, FALSE, FALSE, r.err)
    /\ input' = v
    /\ UNCHANGED it

Grow ==
    /\ Live
    /\ Tree_height(tree) < MaxHeight
    /\ tree' = Tree_grow(tree)
    /\ prev' = tree
    /\ last' = Op("grow", 0, FALSE, FALSE, "Ok")
    /\ UNCHANGED <<input, it>>

Get(b) ==
    /\ Live
    /\ LET r == Tree_get(tree, b)
       IN  last' = Op("get", b, r.panic, r.val, "Ok")
    /\ prev' = tree
    /\ UNCHANGED <<tree, input, it>>

Set(b) ==
    /\ Live
    /\ LET r == Tree_set(tree, b)
       IN  /\ tree' = r.tree
           /\ last' = Op("set", b, r.panic, FALSE, "Ok")
    /\ prev' = tree
    /\ UNCHANGED <<input, it>>

Unset(b) ==
    /\ Live
    /\ LET r == Tree_unset(tree, b)
       IN  /\ tree' = r.tree
           /\ last' = Op("unset", b, r.panic, FALSE, "Ok")
    /\ prev' = tree
    /\ UNCHANGED <<input, it>>

Next ==
    \/ \E v \in SeedInputs : From(v)
    \/ Grow
    \/ \E b \in BitChoices(tree) : Get(b)
    \/ \E b \in BitChoices(tree) : Set(b)
    \/ \E b \in BitChoices(tree) : Unset(b)

Spec == Init /\ [][Next]_vars

\* Tree::from on every input up to MaxLen values
NextFrom == \E v \in Inputs : From(v)

SpecFrom == Init /\ [][NextFrom]_vars

(***************************************************************************)
(* The iterators.  An iterator is taken from a tree built by Tree::from,   *)
(* grow, set and unset, and then driven by next() calls.                   *)
(***************************************************************************)
\* the serialized trees an iterated run may start from
IterSeedInputs == {<<2, 10>>, <<3, 0, 1>>}

\* the bit offsets set before iterating, and the one unset
IterSetBits == {15, 17, 48}

IterUnsetBits == {17}

\* the bounds of the ranges iterated
RangeStarts == {0, 5, 16, 32, 40}

RangeEnds == {16, 20, 32, 48, 50}

Ranges(t) ==
    {r \in RangeStarts \X RangeEnds :
        t /= <<>> /\ r[1] <= r[2] /\ r[2] <= Tree_bits(t)}

\* Tree::iter
Iter ==
    /\ Live
    /\ it' = Tree_iter_from_to(tree, 0, Tree_bits(tree))
    /\ last' = Op("iter", 0, FALSE, FALSE, "Ok")
    /\ prev' = tree
    /\ UNCHANGED <<tree, input>>

\* Tree::iter_ones
IterOnes ==
    /\ Live
    /\ it' = Tree_iter_ones_from_to(tree, 0, Tree_bits(tree))
    /\ last' = Op("iter_ones", 0, FALSE, FALSE, "Ok")
    /\ prev' = tree
    /\ UNCHANGED <<tree, input>>

\* Tree::iter_range
IterRange(from, to) ==
    /\ Live
    /\ it' = Tree_iter_from_to(tree, from, to)
    /\ last' = Op("iter_range", 0, FALSE, FALSE, "Ok")
    /\ prev' = tree
    /\ UNCHANGED <<tree, input>>

\* Tree::iter_ones_range
IterOnesRange(from, to) ==
    /\ Live
    /\ it' = Tree_iter_ones_from_to(tree, from, to)
    /\ last' = Op("iter_ones_range", 0, FALSE, FALSE, "Ok")
    /\ prev' = tree
    /\ UNCHANGED <<tree, input>>

\* one call of next() on the iterator of all bits
IterNext ==
    /\ it.kind = "iter"
    /\ ~it.panic
    /\ it' = LeafIterator_next(it)
    /\ UNCHANGED <<tree, prev, last, input>>

\* one call of next() on the iterator of the set bits
IterOnesNext ==
    /\ it.kind = "ones"
    /\ ~it.panic
    /\ it' = LeafIteratorOnes_next(it)
    /\ UNCHANGED <<tree, prev, last, input>>

NextIter ==
    \/ \E v \in IterSeedInputs : From(v)
    \/ Grow
    \/ \E b \in {x \in IterSetBits : tree /= <<>> /\ x < Tree_bits(tree)} : Set(b)
    \/ \E b \in {x \in IterUnsetBits : tree /= <<>> /\ x < Tree_bits(tree)} : Unset(b)
    \/ Iter
    \/ IterOnes
    \/ \E r \in Ranges(tree) : IterRange(r[1], r[2])
    \/ \E r \in Ranges(tree) : IterOnesRange(r[1], r[2])
    \/ IterNext
    \/ IterOnesNext

SpecIter == Init /\ [][NextIter]_vars

(***************************************************************************)
(* Properties of get, set and unset.                                       *)
(***************************************************************************)
\* every bit offset of tree t
AllBits(t) == 0..(Tree_bits(t) - 1)

\* the last operation was op, called with an offset below bits()
InRange(op) == last.op = op /\ last.bit < Tree_bits(prev)

\* C1: right after set(b) with b < bits(), get(b) is true; right after
\* unset(b) with b < bits(), get(b) is false.
C1_SetThenGet ==
    /\ InRange("set")   => Tree_get(tree, last.bit) = [panic |-> FALSE, val |-> TRUE]
    /\ InRange("unset") => Tree_get(tree, last.bit) = [panic |-> FALSE, val |-> FALSE]

\* an unset that cleared a set bit of a tree of two or more layers
C1_Witness ==
    /\ InRange("unset")
    /\ Len(prev) >= 2
    /\ Tree_get(prev, last.bit).val

\* C2: set(b) and unset(b) with b < bits() change get(c) for no c /= b, and
\* change neither bits() nor height().  (When the tree is left as it was there
\* is nothing to compare.)
C2_Frame ==
    (InRange("set") \/ InRange("unset")) =>
        /\ Tree_bits(tree) = Tree_bits(prev)
        /\ Tree_height(tree) = Tree_height(prev)
        /\ \/ tree = prev
           \/ \A c \in AllBits(prev) :
                c /= last.bit => Tree_get(tree, c) = Tree_get(prev, c)

\* a set that inserted a leaf cell in front of a leaf cell holding a set bit
C2_Witness ==
    /\ InRange("set")
    /\ Len(tree) >= 2
    /\ Len(tree[Len(tree)]) > Len(prev[Len(prev)])
    /\ last.bit < Tree_bits(prev) - Cell_bits
    /\ Tree_get(prev, Tree_bits(prev) - 1).val

\* C3: Tree::from(T.to_vec()) is Ok and returns T, for every tree T reached.
C3_RoundTrip ==
    tree /= <<>> => Tree_from(Tree_to_vec(tree)) = [err |-> "Ok", tree |-> tree]

\* a tree of two or more layers and four or more cells, after an unset that
\* left an all-zero leaf cell behind
C3_Witness ==
    /\ InRange("unset")
    /\ Len(tree) >= 2
    /\ Len(Tree_to_vec(tree)) >= 4
    /\ \E k \in 1..Len(tree[Len(tree)]) : tree[Len(tree)][k] = 0
    /\ tree /= prev

\* C8: get, set and unset panic exactly when b >= bits(), and a panicking
\* call leaves the tree as it was.
C8_Bounds ==
    last.op \in {"get", "set", "unset"} =>
        /\ last.panic <=> last.bit >= Tree_bits(prev)
        /\ last.panic => tree = prev

\* a call at b == bits() on a tree of two or more layers, which panicked
C8_Witness ==
    /\ last.op = "unset"
    /\ Len(prev) >= 2
    /\ last.bit = Tree_bits(prev)
    /\ last.panic

\* a set at b == bits() - 1 that materialized a leaf cell without a panic
C8_WitnessLast ==
    /\ last.op = "set"
    /\ last.bit = Tree_bits(prev) - 1
    /\ ~last.panic
    /\ Len(Tree_to_vec(tree)) > Len(Tree_to_vec(prev))

(***************************************************************************)
(* Properties of Tree::from.  The popcount rule is stated over the ways to *)
(* cut the input into layers: E is the set of the positions at which a     *)
(* layer ends, the first layer being the single value at position 1.       *)
(***************************************************************************)
Ends(v) == {E \in SUBSET (1..Len(v)) : 1 \in E}

MaxOf(S) == CHOOSE x \in S : \A y \in S : y <= x

\* the end of the layer before the one ending at e (0 before the first)
PredEnd(E, e) == MaxOf({x \in E \cup {0} : x < e})

\* the layer ending at e
LayerAt(v, E, e) == SubSeq(v, PredEnd(E, e) + 1, e)

\* every layer after the first holds as many values as the layer before it
\* has set bits
ByRule(v, E) ==
    \A e \in E \ {1} :
        e - PredEnd(E, e) = Layer_count_ones(LayerAt(v, E, PredEnd(E, e)))

\* parsing by the rule stops short of the end of v: the last layer parsed has
\* no set bit, or more set bits than values remain
MalformedByRule(v) ==
    \E E \in Ends(v) :
        /\ ByRule(v, E)
        /\ MaxOf(E) < Len(v)
        /\ LET n == Layer_count_ones(LayerAt(v, E, MaxOf(E)))
           IN  n = 0 \/ n > Len(v) - MaxOf(E)

\* C9: Tree::from returns Empty exactly for the empty input, Malformed exactly
\* when parsing by the popcount rule meets a layer whose popcount exceeds the
\* number of remaining values or is 0 while values remain, and Ok otherwise
\* (so [0,0] is Malformed and [1,1,0] is Ok).
C9_FromErrors ==
    last.op = "from" =>
        /\ last.err = "Empty" <=> input = <<>>
        /\ last.err = "Malformed" <=> (input /= <<>> /\ MalformedByRule(input))
        /\ last.err = "Ok" <=> (input /= <<>> /\ ~MalformedByRule(input))
        /\ input = <<0, 0>> => last.err = "Malformed"
        /\ input = <<1, 1, 0>> => last.err = "Ok"

\* Tree::from on [0, 0]
C9_Witness == last.op = "from" /\ input = <<0, 0>> /\ last.err = "Malformed"

BitsYielded ==
    \A k \in 1..Len(it.out) : it.out[k] = Tree_get(it.tree0, it.from + k - 1).val

\* the offsets in [it.from, it.to) at which it.tree0 holds a set bit
OnesInRange ==
    {b \in it.from..(it.to - 1) : Tree_get(it.tree0, b).val}

\* the offsets the iterator of set bits has yielded come in increasing order
Increasing(out) == \A j, k \in 1..Len(out) : j < k => out[j] < out[k]

Range(out) == {out[k] : k \in 1..Len(out)}

\* C4: iter() yields bits() values, the b-th being get(b), gaps included.
C4_IterAll ==
    last.op = "iter" =>
        /\ ~it.panic
        /\ Len(it.out) <= Tree_bits(it.tree0)
        /\ Len(it.out) > 0 =>
             it.out[Len(it.out)] = Tree_get(it.tree0, Len(it.out) - 1).val
        /\ it.done => (Len(it.out) = Tree_bits(it.tree0) /\ BitsYielded)

\* iter() ran to its end over a tree with a gap before its first leaf cell,
\* a gap between two leaf cells and a gap after the last
C4_Witness ==
    /\ last.op = "iter"
    /\ it.done
    /\ Len(it.leaf) >= 2
    /\ it.leaf[1][1] > 0
    /\ it.leaf[2][1] > it.leaf[1][1] + Cell_bits
    /\ \E k \in 1..Len(it.out) : it.out[k]

\* C5: iter_ones() yields the offsets b < bits() with get(b) true, each once,
\* in increasing order.
C5_IterOnesAll ==
    last.op = "iter_ones" =>
        /\ ~it.panic
        /\ Increasing(it.out)
        /\ Range(it.out) \subseteq OnesInRange
        /\ it.done => Range(it.out) = OnesInRange

\* iter_ones() ran to its end and yielded bits of two leaf cells, with a leaf
\* cell without set bits in the snapshot
C5_Witness ==
    /\ last.op = "iter_ones"
    /\ it.done
    /\ Len(it.out) >= 2
    /\ it.out[Len(it.out)] >= it.out[1] + Cell_bits
    /\ \E k \in 1..Len(it.leaf) : it.leaf[k][2] = 0

\* C6: iter_range(start..end) with start <= end <= bits() never panics and
\* yields end - start values, the k-th being get(start + k).
C6_IterRange ==
    last.op = "iter_range" =>
        /\ ~it.panic
        /\ Len(it.out) <= it.to - it.from
        /\ it.done => (Len(it.out) = it.to - it.from /\ BitsYielded)

\* C7: iter_ones_range(start..end) with start <= end <= bits() never panics
\* and yields the offsets b in [start, end) with get(b) true, in increasing
\* order.
C7_IterOnesRange ==
    last.op = "iter_ones_range" =>
        /\ ~it.panic
        /\ Increasing(it.out)
        /\ Range(it.out) \subseteq OnesInRange
        /\ it.done => Range(it.out) = OnesInRange

(***************************************************************************)
(* Growing as far as the shifts of the program are defined: a tree of      *)
(* UsizeBits / 4 = 16 layers is the tallest whose shift amounts             *)
(* 4 * (len - 1) and 4 * height all stay below the 64 bits of usize (a     *)
(* shift by 64 or more panics in a build with overflow checks and shifts   *)
(* by the amount modulo 64 in a build without).                            *)
(***************************************************************************)
\* the bit offsets handed to get, set and unset of a tall tree
FarBits == {0, 17}

\* Tree::grow, up to 16 layers
GrowFar ==
    /\ Live
    /\ Tree_height(tree) < UsizeBits \div 4
    /\ tree' = Tree_grow(tree)
    /\ prev' = tree
    /\ last' = Op("grow", 0, FALSE, FALSE, "Ok")
    /\ UNCHANGED <<input, it>>

NextGrow ==
    \/ GrowFar
    \/ \E b \in FarBits : Get(b)
    \/ \E b \in FarBits : Set(b)
    \/ \E b \in FarBits : Unset(b)

SpecGrow == Init /\ [][NextGrow]_vars

(***************************************************************************)
(* C11, C12, C18: growth and capacity                                      *)
(***************************************************************************)
\* 16 * x without loss, as five limbs
Times16(x) ==
    LET a == 16 * x[1]
        b == (16 * x[2]) + (a \div U64_Base)
        c == (16 * x[3]) + (b \div U64_Base)
        d == (16 * x[4]) + (c \div U64_Base)
    IN  <<a % U64_Base, b % U64_Base, c % U64_Base, d % U64_Base, d \div U64_Base>>

\* limb i of 2^e without loss
Pow2Limb(e, i) == IF i = (e \div 16) + 1 THEN 2 ^ (e % 16) ELSE 0

\* 2^e without loss, as five limbs
Pow2(e) ==
    <<Pow2Limb(e, 1), Pow2Limb(e, 2), Pow2Limb(e, 3), Pow2Limb(e, 4), Pow2Limb(e, 5)>>

\* 16^h without loss, as five limbs
Pow16(h) == Pow2(4 * h)

\* a usize as five limbs
Wide(x) == x \o <<0>>

\* C11: Tree::new() has height 1 and 16 bits; grow() adds 1 to height() and
\* multiplies bits() by 16; bits() is 16^height() in every state.
C11_GrowBits ==
    /\ last.op = "new" =>
         Tree_height(tree) = 1 /\ Tree_bits_usize(tree) = U64_of(16)
    /\ last.op = "grow" =>
         /\ Tree_height(tree) = Tree_height(prev) + 1
         /\ Wide(Tree_bits_usize(tree)) = Times16(Tree_bits_usize(prev))
    /\ tree /= <<>> => Wide(Tree_bits_usize(tree)) = Pow16(Tree_height(tree))

\* C12: after grow(), get(b) is what it was for every b below the bits() of
\* before, and false for every b from there up to the new bits().
C12_GrowFrame ==
    last.op = "grow" =>
        \A b \in FarBits \cup {15, 16, 255, 256} :
            /\ ~OutOfRange(prev, b) => Tree_get(tree, b) = Tree_get(prev, b)
            /\ OutOfRange(prev, b) /\ ~OutOfRange(tree, b) =>
                 Tree_get(tree, b) = [panic |-> FALSE, val |-> FALSE]

\* C18: however often a new tree is grown, bits() is not 0 and not below
\* what it was, and the offsets below it (0 among them) stay in range for
\* get, set and unset.
C18_NoWrap ==
    tree /= <<>> =>
        /\ Tree_bits_usize(tree) /= U64_Zero
        /\ ~U64_Lt(Tree_bits_usize(tree), Tree_bits_usize(prev))
        /\ last.op \in {"get", "set", "unset"} /\ last.bit = 0 => ~last.panic

(***************************************************************************)
(* C13: idempotence of set                                                 *)
(***************************************************************************)
\* C13: a set(b) with b < bits() right after a set(b) leaves the tree as the
\* first one left it: the same cells, so the same get() for every index and
\* no cell inserted.
C13_SetTwice ==
    [][(/\ last.op = "set" /\ ~last.panic
        /\ last'.op = "set" /\ last'.bit = last.bit) =>
            ~last'.panic /\ tree' = tree]_vars

\* a set of a bit that was set already, in a tree of two layers or more with
\* two leaf cells or more
C13_Witness ==
    /\ InRange("set")
    /\ Len(tree) >= 2
    /\ tree = prev
    /\ Tree_get(tree, last.bit).val
    /\ Len(tree[Len(tree)]) >= 2

(***************************************************************************)
(* The caller keeps changing the tree while it holds an iterator: the      *)
(* iterator owns the Vec that leaf_layer() returned and borrows nothing.   *)
(***************************************************************************)
SnapSeedInputs == {<<2, 10>>}

\* the bit offsets set and unset before and while iterating
SnapBits == {3, 17, 21}

\* the ranges iterated
SnapRanges == {<<0, 20>>, <<5, 16>>, <<16, 32>>}

\* a caller holding an iterator that has not panicked
Holding == ~last.panic /\ tree /= <<>> /\ it.kind /= "none" /\ ~it.panic

\* Tree::set while the iterator is held
SetHeld(b) ==
    /\ Holding
    /\ LET r == Tree_set(tree, b)
       IN  /\ tree' = r.tree
           /\ last' = Op("set", b, r.panic, FALSE, "Ok")
    /\ prev' = tree
    /\ UNCHANGED <<input, it>>

\* Tree::unset while the iterator is held
UnsetHeld(b) ==
    /\ Holding
    /\ LET r == Tree_unset(tree, b)
       IN  /\ tree' = r.tree
           /\ last' = Op("unset", b, r.panic, FALSE, "Ok")
    /\ prev' = tree
    /\ UNCHANGED <<input, it>>

\* Tree::grow while the iterator is held
GrowHeld ==
    /\ Holding
    /\ Tree_height(tree) < MaxHeight
    /\ tree' = Tree_grow(tree)
    /\ prev' = tree
    /\ last' = Op("grow", 0, FALSE, FALSE, "Ok")
    /\ UNCHANGED <<input, it>>

\* the offsets of SnapBits the tree has room for
SnapChoices(t) == {b \in SnapBits : t /= <<>> /\ ~OutOfRange(t, b)}

NextSnap ==
    \/ \E v \in SnapSeedInputs : From(v)
    \/ \E b \in SnapChoices(tree) : Set(b)
    \/ Iter
    \/ IterOnes
    \/ \E r \in SnapRanges : Tree_bits(tree) >= r[2] /\ IterRange(r[1], r[2])
    \/ \E r \in SnapRanges : Tree_bits(tree) >= r[2] /\ IterOnesRange(r[1], r[2])
    \/ IterNext /\ ~it.done
    \/ IterOnesNext /\ ~it.done
    \/ \E b \in SnapChoices(tree) : SetHeld(b)
    \/ \E b \in SnapChoices(tree) : UnsetHeld(b)
    \/ GrowHeld

SpecSnap == Init /\ [][NextSnap]_vars

(***************************************************************************)
(* C14: snapshot isolation                                                 *)
(***************************************************************************)
\* the iterator as it was constructed
Constructed(s) ==
    IF s.kind = "iter" THEN Tree_iter_from_to(s.tree0, s.from, s.to)
    ELSE Tree_iter_ones_from_to(s.tree0, s.from, s.to)

RECURSIVE Drain(_)
\* the iterator after next() was called until it returned None or panicked,
\* with no other call in between
Drain(s) ==
    IF s.done \/ s.panic THEN s
    ELSE Drain(IF s.kind = "iter" THEN LeafIterator_next(s)
               ELSE LeafIteratorOnes_next(s))

\* C14: an iterator whose next() calls were interleaved with set, unset and
\* grow on its tree has yielded, when it ends (None or panic), the sequence
\* it yields when drained right after its construction.
C14_Snapshot ==
    it.kind /= "none" /\ (it.done \/ it.panic) =>
        LET d == Drain(Constructed(it))
        IN  it.out = d.out /\ it.panic = d.panic

\* an iterator that ended after a bit of its range was changed in the tree
\* and the tree was grown under it
C14_Witness ==
    /\ it.kind /= "none"
    /\ it.done
    /\ Len(tree) > Len(it.tree0)
    /\ Len(it.out) > 0
    /\ \E b \in SnapBits :
         /\ it.from <= b /\ b < it.to
         /\ Tree_get(tree, b) /= Tree_get(it.tree0, b)

(***************************************************************************)
(* C15: nothing is removed                                                 *)
(***************************************************************************)
\* C15: a set, unset or grow removes no layer and no cell of a layer the
\* tree had (grow puts the new layer in front of them), so to_vec() gets no
\* shorter; an unset leaves every layer at its length.
C15_NonRemoval ==
    last.op \in {"set", "unset", "grow"} =>
        LET d == Len(tree) - Len(prev)
        IN  /\ d >= 0
            /\ \A i \in 1..Len(prev) : Len(tree[i + d]) >= Len(prev[i])
            /\ Len(Tree_to_vec(tree)) >= Len(Tree_to_vec(prev))
            /\ last.op = "unset" =>
                 d = 0 /\ \A i \in 1..Len(prev) : Len(tree[i]) = Len(prev[i])

\* an unset that cleared the last set bit of a leaf cell of a layer of two
\* cells or more
C15_Witness ==
    /\ InRange("unset")
    /\ Len(tree) >= 2
    /\ Len(prev[Len(prev)]) >= 2
    /\ \E k \in 1..Len(prev[Len(prev)]) :
         prev[Len(prev)][k] /= 0 /\ tree[Len(tree)][k] = 0

(***************************************************************************)
(* A base tree, then any sequence of set and unset on it.                  *)
(***************************************************************************)
\* the serialized base trees; without a Tree::from the base is Tree::new()
AsymSeedInputs == {<<1, 0>>, <<2, 10>>, <<3, 0, 1>>}

\* the bit offsets set and unset
AsymBits == {0, 17, 32, 33}

AsymChoices(t) == {b \in AsymBits : t /= <<>> /\ ~OutOfRange(t, b)}

NextAsym ==
    \/ \E v \in AsymSeedInputs : From(v)
    \/ \E b \in AsymChoices(tree) : Set(b)
    \/ \E b \in AsymChoices(tree) : Unset(b)

SpecAsym == Init /\ [][NextAsym]_vars

(***************************************************************************)
(* C16: non-pruning asymmetry                                              *)
(***************************************************************************)
\* the tree the run started from
Base == IF input = <<>> THEN Tree_new ELSE Tree_from(input).tree

\* the offsets whose bit is set in t
OnesOf(t) == {b \in AllBits(t) : Tree_get(t, b).val}

RECURSIVE SetRange(_, _, _, _)
\* t after set(c) for every c of S with lo <= c < hi, in increasing order
SetRange(t, S, lo, hi) ==
    IF hi - lo <= 1
    THEN (IF hi - lo = 1 /\ lo \in S THEN Tree_set(t, lo).tree ELSE t)
    ELSE LET mid  == lo + ((hi - lo) \div 2)
             left == SetRange(t, S, lo, mid)
         IN  IF left = t THEN SetRange(t, S, mid, hi)
             ELSE SetRange(left, S, mid, hi)

SetEach(t, S) == SetRange(t, S, 0, Tree_bits(t))

RECURSIVE UnsetRange(_, _, _, _)
\* t after unset(c) for every c of S with lo <= c < hi, in increasing order
UnsetRange(t, S, lo, hi) ==
    IF hi - lo <= 1
    THEN (IF hi - lo = 1 /\ lo \in S THEN Tree_unset(t, lo).tree ELSE t)
    ELSE LET mid  == lo + ((hi - lo) \div 2)
             left == UnsetRange(t, S, lo, mid)
         IN  IF left = t THEN UnsetRange(t, S, mid, hi)
             ELSE UnsetRange(left, S, mid, hi)

UnsetEach(t, S) == UnsetRange(t, S, 0, Tree_bits(t))

\* the number of cells of to_vec()
Cells(t) == Len(Tree_to_vec(t))

\* the number of cells of a tree of h layers that has all its cells
FullCells(h) == ((16 ^ h) - 1) \div 15

\* the base tree after every bit was set and then every bit was unset
SetUnsetAll(t) == UnsetEach(SetEach(t, AllBits(t)), AllBits(t))

\* at the base tree: TRUE when the run has made no call yet
AtBase == last.op \in {"new", "from"} /\ tree /= <<>>

SameBits(t1, t2) ==
    /\ Tree_bits_usize(t1) = Tree_bits_usize(t2)
    /\ \A b \in AllBits(t1) : Tree_get(t1, b) = Tree_get(t2, b)

\* Tree::from accepted the input
Accepted == last.op = "from" /\ last.err = "Ok"

\* C17 as stated: no other sequence that Tree::from accepts yields a tree with
\* the bits() and the get(b), for every b < bits(), of the tree of the input.
C17_OneSequence ==
    Accepted =>
        \A w \in Inputs :
            w /= input /\ Tree_from(w).err = "Ok" =>
                ~SameBits(Tree_from(w).tree, tree)

\* C17 amended: to_vec() of the tree Tree::from returns for an accepted
\* sequence is that sequence, so two distinct accepted sequences never yield
\* the same tree (the same cells in the same layers).
C17_OneTree == Accepted => Tree_to_vec(tree) = input

\* an accepted sequence of three values or more whose cells below the root
\* are all 0: a shorter accepted sequence has its bits() and its get()
C17_Witness ==
    /\ Accepted
    /\ Len(input) >= 3
    /\ Len(tree) = 2
    /\ \A k \in 2..Len(input) : input[k] = 0
    /\ SameBits(Tree_from(<<1, 0>>).tree, tree)

(***************************************************************************)
(* C19: iterators end                                                      *)
(***************************************************************************)
\* the iterator has ended: next() returned None or panicked
Ended == it.kind /= "none" /\ (it.done \/ it.panic)

\* C19: an iterator of bits ends by returning None after exactly
\* max(end - start, 0) values; an iterator of set bits ends by returning
\* None, and each call that yields moves its index forward, by no more than
\* the end of the range or of the snapshot allows; once next() has returned
\* None, a later next() yields nothing more.
C19_Finite ==
    /\ [](Ended => it.done /\ ~it.panic)
    /\ [](Ended /\ it.kind = "iter" => Len(it.out) = Max(it.to - it.from, 0))
    /\ [][it.kind = "ones" /\ it'.kind = "ones" /\ it' /= it /\ ~it'.done =>
            /\ it'.index > it.index
            /\ it'.index <= Max(it.to, IF it.leaf = <<>> THEN 0
                                       ELSE it.leaf[Len(it.leaf)][1] + Cell_bits)]_vars
    /\ [][it.done => it'.done /\ it'.out = it.out]_vars

(***************************************************************************)
(* matrix.rs: a Matrix owns one Tree, the variable tree.  The offsets      *)
(* handed on to the Tree are numbers, so a Matrix call is taken for the    *)
(* coordinates whose offset is below 2^31.                                 *)
(***************************************************************************)
\* 1 << ((4 * height) / 2), a usize
Matrix_side(t) == U64_Shl(U64_of(1), (4 * Tree_height(t)) \div 2)

Matrix_bits(t) == Tree_bits_usize(t)

\* (self.side() * y) + x, a usize
Matrix_offset(t, x, y) == U64_Add(U64_MulInt(Matrix_side(t), y), U64_of(x))

Matrix_get(t, x, y) == Tree_get(t, U64_Int(Matrix_offset(t, x, y)))

Matrix_set(t, x, y) == Tree_set(t, U64_Int(Matrix_offset(t, x, y)))

Matrix_unset(t, x, y) == Tree_unset(t, U64_Int(Matrix_offset(t, x, y)))

\* the coordinates <<x, y>> handed to get, set and unset
Coords == {<<0, 0>>, <<3, 0>>, <<1, 1>>, <<3, 3>>, <<5, 1>>}

\* the caller can go on and the offset of (x, y) is a number
Callable(x, y) == Live /\ U64_IsInt(Matrix_offset(tree, x, y))

MatrixGet(x, y) ==
    /\ Callable(x, y)
    /\ LET r == Matrix_get(tree, x, y)
       IN  last' = Op("mget", U64_Int(Matrix_offset(tree, x, y)), r.panic, r.val, "Ok")
    /\ prev' = tree
    /\ input' = <<x, y>>
    /\ UNCHANGED <<tree, it>>

MatrixSet(x, y) ==
    /\ Callable(x, y)
    /\ LET r == Matrix_set(tree, x, y)
       IN  /\ tree' = r.tree
           /\ last' = Op("mset", U64_Int(Matrix_offset(tree, x, y)), r.panic, FALSE, "Ok")
    /\ prev' = tree
    /\ input' = <<x, y>>
    /\ UNCHANGED it

MatrixUnset(x, y) ==
    /\ Callable(x, y)
    /\ LET r == Matrix_unset(tree, x, y)
       IN  /\ tree' = r.tree
           /\ last' = Op("munset", U64_Int(Matrix_offset(tree, x, y)), r.panic, FALSE, "Ok")
    /\ prev' = tree
    /\ input' = <<x, y>>
    /\ UNCHANGED it

\* Matrix::grow, up to 16 layers; the caller sizes the matrix before it
\* reads and writes it
MatrixGrow == last.op \in {"new", "grow"} /\ GrowFar

NextMatrix ==
    \/ MatrixGrow
    \/ \E c \in Coords : MatrixGet(c[1], c[2])
    \/ \E c \in Coords : MatrixSet(c[1], c[2])
    \/ \E c \in Coords : MatrixUnset(c[1], c[2])

SpecMatrix == Init /\ [][NextMatrix]_vars

(***************************************************************************)
(* C20: the coordinates of a Matrix                                        *)
(***************************************************************************)
\* x < side() and y < side()
InSide(t, x, y) ==
    U64_Lt(U64_of(x), Matrix_side(t)) /\ U64_Lt(U64_of(y), Matrix_side(t))

\* the last call was op at coordinates below side()
AtCoords(op) ==
    last.op = op /\ InSide(prev, input[1], input[2])

\* C20: side() is 2^(2 * height) and side() * side(), which then is
\* 2^(4 * height), is bits(); below side() the offsets are below bits() and
\* differ for different coordinates; set(x, y) and unset(x, y) make
\* get(x, y) true and false and leave get at every other coordinate below
\* side() as it was.
C20_Matrix ==
    tree /= <<>> =>
        /\ Wide(Matrix_side(tree)) = Pow2(2 * Tree_height(tree))
        /\ Wide(Matrix_bits(tree)) = Pow2(4 * Tree_height(tree))
        /\ \A c \in Coords :
             InSide(tree, c[1], c[2]) =>
                 /\ U64_Lt(Matrix_offset(tree, c[1], c[2]), Matrix_bits(tree))
                 /\ \A d \in Coords :
                      InSide(tree, d[1], d[2]) /\ d /= c =>
                          Matrix_offset(tree, d[1], d[2]) /= Matrix_offset(tree, c[1], c[2])
        /\ AtCoords("mget") => ~last.panic
        /\ AtCoords("mset") \/ AtCoords("munset") =>
             /\ ~last.panic
             /\ Matrix_get(tree, input[1], input[2])
                    = [panic |-> FALSE, val |-> last.op = "mset"]
             /\ \A c \in Coords :
                  /\ InSide(tree, c[1], c[2])
                  /\ U64_IsInt(Matrix_offset(tree, c[1], c[2]))
                  /\ c /= input
                  => Matrix_get(tree, c[1], c[2]) = Matrix_get(prev, c[1], c[2])

(***************************************************************************)
(* C21: the shape of the layers                                            *)
(***************************************************************************)
\* one root cell, as many cells in a layer as there are set bits in the
\* layer above it, and a set bit in every layer above the leaves
WellFormed(t) ==
    /\ Len(t[1]) = 1
    /\ \A i \in 2..Len(t) : Len(t[i]) = Layer_count_ones(t[i - 1])
    /\ \A i \in 1..(Len(t) - 1) : Layer_count_ones(t[i]) >= 1

\* C21: every tree reached from Tree::new() or an accepted Tree::from input
\* by set, unset and grow has exactly one root cell, has in every layer below
\* the root as many cells as the layer above it has set bits, and has at
\* least one set bit in every layer above the leaf layer.
C21_WellFormed == tree /= <<>> => WellFormed(tree)

\* a set that added a cell to a tree grown from Tree::new()
C21_Witness ==
    /\ last.op = "set" /\ ~last.panic
    /\ input = <<>>
    /\ Len(tree) > 1
    /\ Cells(tree) > Cells(prev)
    /\ WellFormed(tree)

(***************************************************************************)
(* C22: the cells that set inserts                                         *)
(***************************************************************************)
\* the layer of t at height k (the leaf layer is at height 0)
AtHeight(t, k) == t[Len(t) - k]

\* the index within its cell of the bit on b's path at height k
Digit(b, k) == (b \div (16 ^ k)) % 16

\* the number of set bits of the layer before bit o of the cell at offset off
Rank(layer, off, o) ==
    Cardinality({p \in (1..Len(layer)) \X (0..15) :
                    /\ Cell_get(layer[p[1]], p[2])
                    /\ p[1] < off + 1 \/ (p[1] = off + 1 /\ p[2] < o)})

RECURSIVE PathOff(_, _, _)
\* the offset, in the layer at height k, of the cell on b's path
PathOff(t, k, b) ==
    IF k = Len(t) - 1 THEN 0
    ELSE Rank(AtHeight(t, k + 1), PathOff(t, k + 1, b), Digit(b, k + 1))

RECURSIVE TopZeroFrom(_, _, _, _)
\* the height of the topmost bit of b's path that is 0, from height k and
\* cell offset off downwards; -1 when every bit of the path is 1
TopZeroFrom(t, k, off, b) ==
    IF ~Cell_get(AtHeight(t, k)[off + 1], Digit(b, k)) THEN k
    ELSE IF k = 0 THEN -1
    ELSE TopZeroFrom(t, k - 1, Rank(AtHeight(t, k), off, Digit(b, k)), b)

TopZero(t, b) == TopZeroFrom(t, Len(t) - 1, 0, b)

\* layer with cell put in at offset off
WithCell(layer, off, cell) ==
    SubSeq(layer, 1, off) \o <<cell>> \o SubSeq(layer, off + 1, Len(layer))

\* C22: a set(b) whose topmost 0 path bit is at height h puts one cell, with
\* only b's path bit set, into each of the h layers below that height, at
\* the offset given by the rank of the path bit above it; it sets the path
\* bit at height h and leaves the layers above alone; it inserts nothing when
\* no bit of the path above the leaves was 0; the number of cells grows by h.
C22_Materialize ==
    InRange("set") =>
        LET b == last.bit
            h == TopZero(prev, b)
        IN  /\ ~last.panic
            /\ Len(tree) = Len(prev)
            /\ \A k \in 0..(Len(prev) - 1) :
                 LET old == AtHeight(prev, k)
                     new == AtHeight(tree, k)
                     off == PathOff(tree, k, b)
                 IN  IF k < h
                     THEN off <= Len(old) /\ new = WithCell(old, off, 2 ^ Digit(b, k))
                     ELSE IF k = h
                     THEN new = [old EXCEPT ![off + 1] = Cell_set(@, Digit(b, k), TRUE)]
                     ELSE new = old
            /\ Cells(tree) = Cells(prev) + Max(h, 0)

\* a set that put a cell into each of two layers
C22_Witness ==
    /\ InRange("set") /\ ~last.panic
    /\ TopZero(prev, last.bit) = 2
    /\ Cells(tree) = Cells(prev) + 2

(***************************************************************************)
(* C23: what unset leaves alone                                            *)
(***************************************************************************)
\* the <<cell index, bit index>> pairs at which two layers of one length differ
Changed(old, new) ==
    {p \in (1..Len(old)) \X (0..15) :
        Cell_get(old[p[1]], p[2]) /= Cell_get(new[p[1]], p[2])}

\* C23: an unset(b) leaves every layer above the leaves as it was and every
\* layer at its length; in the leaf layer it changes at most the bit that b
\* addresses; when a bit of b's path above the leaves is 0 it leaves the
\* whole tree as it was.
C23_UnsetFrame ==
    InRange("unset") =>
        LET b == last.bit
            h == TopZero(prev, b)
        IN  /\ ~last.panic
            /\ Len(tree) = Len(prev)
            /\ \A k \in 1..(Len(prev) - 1) : AtHeight(tree, k) = AtHeight(prev, k)
            /\ Len(AtHeight(tree, 0)) = Len(AtHeight(prev, 0))
            /\ Changed(AtHeight(prev, 0), AtHeight(tree, 0))
                   \subseteq {<<PathOff(prev, 0, b) + 1, Digit(b, 0)>>}
            /\ h >= 1 => Tree_to_vec(tree) = Tree_to_vec(prev)

\* an unset that cleared a bit in a leaf cell that is not the first one
C23_Witness ==
    /\ InRange("unset") /\ ~last.panic
    /\ PathOff(prev, 0, last.bit) > 0
    /\ Changed(AtHeight(prev, 0), AtHeight(tree, 0))
           = {<<PathOff(prev, 0, last.bit) + 1, Digit(last.bit, 0)>>}

(***************************************************************************)
(* C24: leaf_layer() and get                                               *)
(***************************************************************************)
\* bit offsets probed outside the 16-bit ranges of the leaf cells
LeafProbes == {5, 17, 40, 255, 256, 4101}

\* b lies in the 16 bits that start at the usize off
Covers(off, b) ==
    U64_Le(off, U64_of(b)) /\ U64_Lt(U64_of(b), U64_Add(off, U64_of(Cell_bits)))

\* C24: leaf_layer() has one <<offset, cell>> entry for each cell of the leaf
\* layer, in the layer's order; the offsets increase strictly, are multiples
\* of 16 and are below bits(); bit j of an entry's cell is get(offset + j);
\* get(b) is false for every b below bits() outside every entry's 16 bits.
C24_LeafLayer ==
    tree /= <<>> =>
        LET ll     == Tree_leaf_layer_usize(tree)
            leaves == tree[Len(tree)]
        IN  /\ Len(ll) = Len(leaves)
            /\ \A k \in 1..Len(ll) :
                 /\ ll[k][2] = leaves[k]
                 /\ ll[k][1][1] % 16 = 0
                 /\ U64_Lt(ll[k][1], Tree_bits_usize(tree))
                 /\ \A j \in 1..(k - 1) : U64_Lt(ll[j][1], ll[k][1])
                 /\ U64_IsInt(ll[k][1]) =>
                      \A j \in 0..15 :
                          Tree_get(tree, U64_Int(ll[k][1]) + j)
                              = [panic |-> FALSE, val |-> Cell_get(ll[k][2], j)]
            /\ \A b \in LeafProbes :
                 /\ ~OutOfRange(tree, b)
                 /\ \A k \in 1..Len(ll) : ~Covers(ll[k][1], b)
                 => Tree_get(tree, b) = [panic |-> FALSE, val |-> FALSE]

(***************************************************************************)
(* C25: the order of two sets                                              *)
(***************************************************************************)
\* the bit offsets a set is swapped with
SwapBits == {0, 1, 16, 17, 33, 255, 256, 273, 4095}

\* C25: set(a) after set(b) leaves the same cells as set(b) after set(a), for
\* a and b below bits().
C25_SetCommute ==
    InRange("set") =>
        \A a \in SwapBits :
            ~OutOfRange(prev, a) =>
                /\ ~Tree_set(prev, a).panic
                /\ Tree_to_vec(Tree_set(tree, a).tree)
                       = Tree_to_vec(Tree_set(Tree_set(prev, a).tree, last.bit).tree)

\* a set(b) that inserted a cell, with a lower a whose set inserts one too
C25_Witness ==
    /\ InRange("set") /\ ~last.panic
    /\ Cells(tree) > Cells(prev)
    /\ \E a \in SwapBits :
         /\ a < last.bit
         /\ Cells(Tree_set(tree, a).tree) > Cells(tree)

(***************************************************************************)
(* Cell calls on the root cell of a tree of one layer.  For these calls    *)
(* last.bit is the index handed in and last.val the value handed to set,   *)
(* the boolean get returned or the number count_ones_until returned.       *)
(***************************************************************************)
\* the cells a run may start from: no or one bit set, no or one bit clear,
\* and the cell values of the Tree::from inputs
CellDraws ==
    {0, 65535} \cup {2 ^ n : n \in 0..15} \cup {65535 - (2 ^ n) : n \in 0..15}
        \cup CellVals

\* the indexes handed to get, set and count_ones_until
CellIdx == 0..17

\* the cell the caller holds
CellOf(t) == t[1][1]

\* a caller holding a cell, no panic so far
HoldsCell == ~last.panic /\ tree /= <<>> /\ Len(tree) = 1 /\ it.kind = "none"

\* Tree::from(&[c]): the caller gets hold of the cell c
CellDraw(c) == From(<<c>>)

\* Cell::get
CellGet(n) ==
    /\ HoldsCell
    /\ last' = Op("cell_get", n, ~bounds_check(n),
                  bounds_check(n) /\ Cell_get(CellOf(tree), n), "Ok")
    /\ prev' = tree
    /\ UNCHANGED <<tree, input, it>>

\* Cell::set, on a cell that no set has changed yet
CellSet(n, v) ==
    /\ HoldsCell
    /\ tree = IF input = <<>> THEN Tree_new ELSE << <<input[1]>> >>
    /\ last' = Op("cell_set", n, ~bounds_check(n), v, "Ok")
    /\ tree' = IF bounds_check(n) THEN << <<Cell_set(CellOf(tree), n, v)>> >> ELSE tree
    /\ prev' = tree
    /\ UNCHANGED <<input, it>>

\* Cell::count_ones_until
CellCountOnesUntil(idx) ==
    /\ HoldsCell
    /\ last' = Op("cell_count_ones_until", idx, ~bounds_check(idx),
                  IF bounds_check(idx) THEN Cell_count_ones_until(CellOf(tree), idx) ELSE 0,
                  "Ok")
    /\ prev' = tree
    /\ UNCHANGED <<tree, input, it>>

NextCell ==
    \/ \E c \in CellDraws : CellDraw(c)
    \/ \E n \in CellIdx : CellGet(n)
    \/ \E n \in CellIdx, v \in BOOLEAN : CellSet(n, v)
    \/ \E idx \in CellIdx : CellCountOnesUntil(idx)

SpecCell == Init /\ [][NextCell]_vars

(***************************************************************************)
(* C26: the operations of a Cell                                           *)
(***************************************************************************)
\* the indexes below 16 at which the cell c has a set bit
OnesOfCell(c) == {j \in 0..15 : (c \div (2 ^ j)) % 2 = 1}

\* C26: set(i, v) with i < 16 gives a cell whose bit i is v and whose other
\* bits are those of the old cell; get(i) is bit i; count_ones_until(i) is
\* the number of set bits below i; each of the three panics exactly when its
\* index is 16 or more.
C26_CellOps ==
    /\ last.op \in {"cell_get", "cell_set", "cell_count_ones_until"} =>
         /\ last.panic <=> last.bit >= 16
         /\ last.panic => tree = prev
    /\ last.op = "cell_set" /\ ~last.panic =>
         /\ CellOf(tree) \in 0..65535
         /\ Cell_get(CellOf(tree), last.bit) = last.val
         /\ OnesOfCell(CellOf(tree)) \ {last.bit} = OnesOfCell(CellOf(prev)) \ {last.bit}
    /\ last.op = "cell_get" /\ ~last.panic =>
         last.val = (last.bit \in OnesOfCell(CellOf(tree)))
    /\ last.op = "cell_count_ones_until" /\ ~last.panic =>
         last.val = Cardinality({j \in OnesOfCell(CellOf(tree)) : j < last.bit})

\* a set(i, false) that cleared one of several set bits
C26_Witness ==
    /\ last.op = "cell_set" /\ ~last.panic /\ last.val = FALSE
    /\ CellOf(tree) /= CellOf(prev)
    /\ Cardinality(OnesOfCell(CellOf(tree))) >= 2

(***************************************************************************)
(* Layer::count_ones_until called on a layer of the tree.  For this call   *)
(* input is the layer's cells, last.bit the idx handed in and last.val the *)
(* number returned.                                                        *)
(***************************************************************************)
\* Layer::count_ones_until on layer i of the tree; the slice self[0..idx]
\* panics when idx is beyond the layer's length
LayerCountOnesUntil(i, idx) ==
    /\ Live
    /\ i \in 1..Len(tree)
    /\ idx \in 0..(Len(tree[i]) + 1)
    /\ last' = Op("count_ones_until", idx, idx > Len(tree[i]),
                  IF idx > Len(tree[i]) THEN 0 ELSE Layer_count_ones_until(tree[i], idx),
                  "Ok")
    /\ input' = tree[i]
    /\ prev' = tree
    /\ UNCHANGED <<tree, it>>

NextLayer ==
    \/ \E v \in SeedInputs : From(v)
    \/ Grow
    \/ \E b \in BitChoices(tree) : Set(b)
    \/ \E i \in 1..(MaxHeight + 2), idx \in 0..(MaxLen + 2) : LayerCountOnesUntil(i, idx)

SpecLayer == Init /\ [][NextLayer]_vars

(***************************************************************************)
(* C27: the rank of Layer::count_ones_until                                *)
(***************************************************************************)
\* the last call was a count_ones_until that returned
Counted == last.op = "count_ones_until" /\ ~last.panic

\* C27 as stated: count_ones_until(offset) counts the set bits before bit
\* offset of the concatenated cells: every bit of the cells that lie wholly
\* before it and, in the cell it falls into, the bits before it.
C27_BitRank ==
    Counted => last.val = Rank(input, last.bit \div 16, last.bit % 16)

\* C27: count_ones_until(idx) counts every set bit of the first idx cells of
\* the layer and no bit of any other cell: idx is a number of cells.
C27_CellRank ==
    Counted =>
        /\ last.bit <= Len(input)
        /\ last.val = Rank(input, last.bit, 0)

\* a count over two cells that have three set bits
C27_Witness ==
    /\ Counted
    /\ last.bit = 2
    /\ last.val = 3

====
